---- MODULE Spec2Model ----
(***************************************************************************)
(* index-html: an HTTP service that maps request paths under proxyRoot to  *)
(* a directory tree under jailRoot and answers with a file, a redirect     *)
(* (symlinks) or a sorted HTML directory listing (src/main.go).            *)
(*                                                                         *)
(* Strings that the code slices or joins (paths, URIs) are sequences of    *)
(* one-character strings; strings that are only compared for equality      *)
(* (sort mode names, response kinds) are TLA+ strings.                     *)
(***************************************************************************)
EXTENDS Integers, Sequences, FiniteSets, TLC

(***************************************************************************)
(* Strings and package path                                                *)
(***************************************************************************)

\* byte value of a character (only the order matters: Go compares strings bytewise)
CharCode(c) ==
  CASE c = "-" -> 45 [] c = "." -> 46 [] c = "/" -> 47 [] c = "1" -> 49
    [] c = ":" -> 58 [] c = "a" -> 97 [] c = "b" -> 98 [] c = "c" -> 99
    [] c = "d" -> 100 [] c = "e" -> 101 [] c = "f" -> 102 [] c = "g" -> 103
    [] c = "h" -> 104 [] c = "i" -> 105 [] c = "j" -> 106 [] c = "l" -> 108
    [] c = "m" -> 109 [] c = "n" -> 110 [] c = "o" -> 111 [] c = "p" -> 112
    [] c = "r" -> 114 [] c = "s" -> 115 [] c = "t" -> 116 [] c = "u" -> 117
    [] c = "v" -> 118 [] c = "w" -> 119 [] c = "x" -> 120 [] OTHER -> 0

\* s < t for Go strings
RECURSIVE StrLess(_, _)
StrLess(s, t) ==
  IF t = <<>> THEN FALSE
  ELSE IF s = <<>> THEN TRUE
  ELSE IF Head(s) = Head(t) THEN StrLess(Tail(s), Tail(t))
  ELSE CharCode(Head(s)) < CharCode(Head(t))

startsWith(s, start) ==
  IF Len(s) < Len(start) THEN FALSE
  ELSE SubSeq(s, 1, Len(start)) = start

removeIfStartsWith(s, start) ==
  IF ~startsWith(s, start) THEN s
  ELSE SubSeq(s, Len(start) + 1, Len(s))

\* strings.Split(s, "/"): the segments between slashes
RECURSIVE SplitFrom(_, _, _)
SplitFrom(s, cur, acc) ==
  IF s = <<>> THEN Append(acc, cur)
  ELSE SplitFrom(Tail(s),
                 IF Head(s) = "/" THEN <<>> ELSE Append(cur, Head(s)),
                 IF Head(s) = "/" THEN Append(acc, cur) ELSE acc)

Segments(s) == SplitFrom(s, <<>>, <<>>)

RECURSIVE JoinSegs(_)
JoinSegs(segs) ==
  IF segs = <<>> THEN <<>>
  ELSE IF Len(segs) = 1 THEN segs[1]
  ELSE segs[1] \o <<"/">> \o JoinSegs(Tail(segs))

IsAbs(p) == Len(p) > 0 /\ p[1] = "/"

\* one round of path.Clean's loop: "" and "." are dropped, ".." removes the
\* element before it (or is kept at the front of a relative path)
cleanStep(s, out, rooted) ==
  IF s = <<>> \/ s = <<".">> THEN out
  ELSE IF s = <<".", ".">>
    THEN IF out # <<>> /\ out[Len(out)] # <<".", ".">>
           THEN SubSeq(out, 1, Len(out) - 1)
         ELSE IF ~rooted THEN Append(out, s)
         ELSE out
  ELSE Append(out, s)

RECURSIVE CleanSegs(_, _, _)
CleanSegs(segs, out, rooted) ==
  IF segs = <<>> THEN out
  ELSE CleanSegs(Tail(segs), cleanStep(Head(segs), out, rooted), rooted)

\* the end of path.Clean: the root slash in front, "." for an empty result
cleanResult(rooted, out) ==
  IF rooted THEN <<"/">> \o out
  ELSE IF out = <<>> THEN <<".">> ELSE out

\* path.Clean
Clean(p) ==
  IF p = <<>> THEN <<".">>
  ELSE cleanResult(IsAbs(p), JoinSegs(CleanSegs(Segments(p), <<>>, IsAbs(p))))

\* path.Join(a, b): empty elements are ignored, the result is cleaned
Join(a, b) ==
  IF a = <<>> /\ b = <<>> THEN <<>>
  ELSE Clean(IF a = <<>> THEN b ELSE IF b = <<>> THEN a ELSE a \o <<"/">> \o b)

\* index of the last "/" in p, 0 if none
RECURSIVE LastSlash(_, _)
LastSlash(p, i) ==
  IF i = 0 THEN 0 ELSE IF p[i] = "/" THEN i ELSE LastSlash(p, i - 1)

\* path.Dir: everything up to the last slash, cleaned
Dir(p) == Clean(SubSeq(p, 1, LastSlash(p, Len(p))))

\* path.Base restricted to cleaned paths: the last element
Base(p) == SubSeq(p, LastSlash(p, Len(p)) + 1, Len(p))

(***************************************************************************)
(* State                                                                   *)
(***************************************************************************)

VARIABLES
  proxyRoot,      \* -p: root of web requests to process
  jailRoot,       \* -r: local filesystem path bound to the web root
  accelRedirect,  \* -xa: root of X-Accel-Redirect paths, "" when not given
  fs,             \* the filesystem: a sequence of nodes, in directory-read order
  alive,          \* the process is running (log.Fatal has not been called)
  conn            \* per connection: the request being served and its response

vars == <<proxyRoot, jailRoot, accelRedirect, fs, alive, conn>>

\* the working directory of the process, which a relative jailRoot is relative to
Cwd == <<"/", "j">>

\* number of symlinks the filesystem follows in one lookup before giving up (ELOOP)
MaxLinks == 2

\* number of connections served concurrently
MaxConns == 2

Node(p, k, t, s, m, x) ==
  [path |-> p, kind |-> k, target |-> t, size |-> s, mtime |-> m, text |-> x]

NoPath == <<>>

(***************************************************************************)
(* The filesystem capability (package os)                                  *)
(***************************************************************************)

\* what the kernel makes of a path name: relative names start at Cwd
Abs(p) == IF IsAbs(p) THEN Clean(p) ELSE Join(Cwd, p)

\* the index in fs of the node with absolute path p, 0 when there is none
NodeIdx(p) ==
  IF \E i \in 1..Len(fs) : fs[i].path = p
    THEN CHOOSE i \in 1..Len(fs) : fs[i].path = p
    ELSE 0

\* the elements of a cleaned absolute path
ElemsOf(p) == SelectSeq(Segments(p), LAMBDA s : s # <<>>)

\* a link's target as an absolute path, for a link in directory cur
linkAbs(cur, t) == IF IsAbs(t) THEN Clean(t) ELSE Join(cur, t)

\* name resolution from directory cur: the path of the node reached, NoPath if
\* an element is missing or too many links are met.  A link in the last
\* element is followed only with followLast.
RECURSIVE Walk(_, _, _, _)
RECURSIVE walkAt(_, _, _, _, _, _)
Walk(cur, segs, followLast, fuel) ==
  IF segs = <<>> THEN cur
  ELSE walkAt(cur, Join(cur, Head(segs)), NodeIdx(Join(cur, Head(segs))),
              Tail(segs), followLast, fuel)

walkAt(cur, next, i, rest, followLast, fuel) ==
  IF i = 0 THEN NoPath
  ELSE IF fs[i].kind = "link" /\ (rest # <<>> \/ followLast)
    THEN IF fuel = 0 THEN NoPath
         ELSE Walk(<<"/">>, ElemsOf(linkAbs(cur, fs[i].target)) \o rest,
                   followLast, fuel - 1)
  ELSE Walk(next, rest, followLast, fuel)

Resolve(p, followLast) == Walk(<<"/">>, ElemsOf(Abs(p)), followLast, MaxLinks)

\* os.FileInfo of node n, reached under the name p
FileInfo(n, p) ==
  [err |-> FALSE, name |-> Base(p), isDir |-> n.kind = "dir",
   isLink |-> n.kind = "link", isRegular |-> n.kind = "file",
   size |-> n.size, mtime |-> n.mtime]

NoInfo ==
  [err |-> TRUE, name |-> <<>>, isDir |-> FALSE, isLink |-> FALSE,
   isRegular |-> FALSE, size |-> 0, mtime |-> 0]

infoAt(rp, p) == IF rp = NoPath THEN NoInfo ELSE FileInfo(fs[NodeIdx(rp)], p)

\* os.Lstat: does not follow a link in the last element
Lstat(p) == infoAt(Resolve(p, FALSE), p)

\* os.Stat: follows links
Stat(p) == infoAt(Resolve(p, TRUE), p)

\* os.Readlink of a path Lstat reports as a link
Readlink(p) == fs[NodeIdx(Resolve(p, FALSE))].target

textAt(rp) ==
  IF rp = NoPath THEN ""
  ELSE IF fs[NodeIdx(rp)].kind = "file" THEN fs[NodeIdx(rp)].text ELSE ""

\* the first line of the file at p, "" when it cannot be opened or has no line
FirstLine(p) == textAt(Resolve(p, TRUE))

infosOf(kids) == [i \in 1..Len(kids) |-> FileInfo(kids[i], kids[i].path)]

entriesAt(rp) == infosOf(SelectSeq(fs, LAMBDA n : n.path # rp /\ Dir(n.path) = rp))

\* f.Readdir(0) of the directory at p: its entries, as Lstat reports them,
\* in the order the directory holds them
Readdir(p) == entriesAt(Resolve(p, TRUE))

(***************************************************************************)
(* Package net/url                                                         *)
(***************************************************************************)

IsLetter(c) == CharCode(c) >= 97
IsSchemeExtra(c) == c \in {"1", "-", "."}

\* url.getScheme: the index of the colon ending a scheme, 0 when the string has
\* no scheme, -1 for "missing protocol scheme" (a colon in front)
RECURSIVE getScheme(_, _)
getScheme(raw, i) ==
  IF i > Len(raw) THEN 0
  ELSE IF raw[i] = ":" THEN (IF i = 1 THEN -1 ELSE i)
  ELSE IF IsSchemeExtra(raw[i]) /\ i = 1 THEN 0
  ELSE IF IsLetter(raw[i]) \/ IsSchemeExtra(raw[i]) THEN getScheme(raw, i + 1)
  ELSE 0

HasColon(seg) == \E i \in 1..Len(seg) : seg[i] = ":"

ParseError == [err |-> TRUE, Path |-> <<>>, sort |-> ""]

\* url.parse after getScheme found the scheme to end at k and rest to follow
parseRest(k, rest, query) ==
  IF k = -1 THEN ParseError
  ELSE IF startsWith(rest, <<"/">>) THEN [err |-> FALSE, Path |-> rest, sort |-> query]
  ELSE IF k > 0 THEN [err |-> FALSE, Path |-> <<>>, sort |-> query]
  ELSE IF HasColon(Segments(rest)[1]) THEN ParseError
  ELSE [err |-> FALSE, Path |-> rest, sort |-> query]

schemeRest(raw, k) == IF k > 0 THEN SubSeq(raw, k + 1, Len(raw)) ELSE raw

\* url.Parse of a request URI whose query string, when there is one, is
\* sort=<query>: Path is the part before the "?" and Query().Get("sort") the
\* value.  A URI with a scheme and no leading slash is opaque and has no Path;
\* without a scheme, a colon in the first path segment is an error.
\* (Percent-escapes, fragments and "//host" are not in the model's requests.)
urlParse(uri) ==
  parseRest(getScheme(uri.raw, 1), schemeRest(uri.raw, getScheme(uri.raw, 1)), uri.query)

(***************************************************************************)
(* Directory entry sorting                                                 *)
(***************************************************************************)

translateForProxy(s) == Join(proxyRoot, removeIfStartsWith(s, jailRoot))

\* ByName.Less, ByDate.Less, BySize.Less on two entries
Less(by, dir, a, b) ==
  IF a.isDir /\ ~b.isDir THEN TRUE
  ELSE IF ~a.isDir /\ b.isDir THEN FALSE
  ELSE IF by = "name"
    THEN StrLess(IF dir = "asc" THEN a.name ELSE b.name,
                 IF dir = "asc" THEN b.name ELSE a.name)
  ELSE IF by = "date"
    THEN IF dir = "asc" THEN a.mtime < b.mtime ELSE a.mtime > b.mtime
  ELSE IF dir = "asc" THEN a.size < b.size ELSE a.size > b.size

\* Entries.Swap
Swap(s, i, j) == [s EXCEPT ![i] = s[j], ![j] = s[i]]

\* package sort, insertionSort: the inner loop that sinks element j
RECURSIVE Sink(_, _, _, _)
Sink(data, j, by, dir) ==
  IF j > 1 /\ Less(by, dir, data[j], data[j - 1])
    THEN Sink(Swap(data, j, j - 1), j - 1, by, dir)
    ELSE data

RECURSIVE insertionSortFrom(_, _, _, _)
insertionSortFrom(data, i, by, dir) ==
  IF i > Len(data) THEN data
  ELSE insertionSortFrom(Sink(data, i, by, dir), i + 1, by, dir)

insertionSort(data, by, dir) == insertionSortFrom(data, 2, by, dir)

\* package sort, quickSort on at most 12 elements (Go before 1.19): one
\* ShellSort pass with gap 6, before the insertion sort
ShellGap == 6

RECURSIVE shellPass(_, _, _, _)
shellPass(data, i, by, dir) ==
  IF i > Len(data) THEN data
  ELSE shellPass(IF Less(by, dir, data[i], data[i - ShellGap])
                   THEN Swap(data, i, i - ShellGap) ELSE data,
                 i + 1, by, dir)

\* sort.Sort on a slice of at most 12 elements, which "is not guaranteed to be
\* stable": the results the releases of package sort produce.  Every release
\* runs insertionSort on up to 6 elements; on 7 to 12 elements releases before
\* Go 1.19 run the ShellSort pass first, later ones insertionSort alone.
sortSort(data, by, dir) ==
  { insertionSort(d, by, dir) : d \in {data, shellPass(data, ShellGap + 1, by, dir)} }

(***************************************************************************)
(* Responses                                                               *)
(***************************************************************************)

\* What a handler did: kind "none" (nothing written), "error" (doError),
\* "redirect" (doRedirect), "accel" (X-Accel-Redirect header), "file"
\* (http.ServeFile called on localPath) or "listing" (generateIndexHtml);
\* touched is every path name the handler passed to the filesystem.
Response(k, st, loc, lp, t, pr, rs, ls) ==
  [kind |-> k, status |-> st, location |-> loc, localPath |-> lp,
   touched |-> t, parentRow |-> pr, rows |-> rs, sortLinks |-> ls]

NoResponse == Response("none", 0, <<>>, <<>>, {}, FALSE, <<>>, <<>>)

StatusOK == 200
StatusFound == 302
StatusBadRequest == 400
StatusNotFound == 404

KiB == 1024

(***************************************************************************)
(* generateIndexHtml                                                       *)
(***************************************************************************)

\* the request path translated to the local path
toLocal(urlPath) == Join(jailRoot, removeIfStartsWith(urlPath, proxyRoot))

absOrJoin(localPath, targetPath) ==
  IF ~IsAbs(targetPath) THEN Join(localPath, targetPath) ELSE targetPath

\* the path os.Stat is given for a link entry of the directory localPath
linkTargetPath(localPath, dfi) ==
  absOrJoin(localPath, Readlink(Join(localPath, dfi.name)))

targetOrSelf(tdfi, dfi) == IF ~tdfi.err THEN tdfi ELSE dfi

followSymlink(localPath, dfi) ==
  IF dfi.isLink
    THEN targetOrSelf(Stat(linkTargetPath(localPath, dfi)), dfi)
    ELSE dfi

\* the path names followSymlink hands to os.Readlink and os.Stat
followSymlinkTouched(localPath, dfi) ==
  IF dfi.isLink
    THEN {Join(localPath, dfi.name), linkTargetPath(localPath, dfi)}
    ELSE {}

orRoot(baseDir) == IF baseDir = <<>> THEN <<"/">> ELSE baseDir

\* the parent directory the "../" row is decided on
baseDirOf(localPath) ==
  orRoot(Dir(IF localPath[Len(localPath)] = "/"
               THEN SubSeq(localPath, 1, Len(localPath) - 1)
               ELSE localPath))

IndexSort == <<".", "i", "n", "d", "e", "x", "-", "s", "o", "r", "t">>

\* mutant of sortStringOf: the marker file wins over the query string
sortStringMarkerFirst(marker, query) == IF marker # "" THEN marker ELSE query

\* mutant of sortStringOf: a query value that names no mode is dropped
sortStringKnownQuery(marker, query) ==
  IF query \in {"name-asc", "name-desc", "date-asc", "date-desc", "size-asc", "size-desc"}
    THEN query ELSE marker

\* the mode string: the first line of .index-sort, overridden by ?sort=
sortStringOf(marker, query) == IF query # "" THEN query ELSE marker

\* the switch on the mode string: sortBy, sortDir
sortModeOf(sortString) ==
  CASE sortString = "size-desc" -> <<"size", "desc">>
    [] sortString = "size-asc"  -> <<"size", "asc">>
    [] sortString = "date-desc" -> <<"date", "desc">>
    [] sortString = "date-asc"  -> <<"date", "asc">>
    [] sortString = "name-desc" -> <<"name", "desc">>
    [] sortString = "name-asc"  -> <<"name", "asc">>
    [] OTHER -> <<"name", "asc">>

\* nameSort, sizeSort, dateSort: the modes the column headers link to
sortLinksOf(sortString) ==
  <<IF sortString = "name-asc" THEN "name-desc" ELSE "name-asc",
    IF sortString = "size-asc" THEN "size-desc" ELSE "size-asc",
    IF sortString = "date-asc" THEN "date-desc" ELSE "date-asc">>

\* the size column of a file
sizeTextOf(size) ==
  IF size < KiB * KiB THEN [unit |-> "KiB", bytes |-> size]
  ELSE IF size < KiB * KiB * KiB THEN [unit |-> "MiB", bytes |-> size]
  ELSE [unit |-> "GiB", bytes |-> size]

\* one table row: the name and link come from the entry name, the other
\* columns from dfi, which followSymlink returned for the entry
rowFrom(name, href, dfi) ==
  IF dfi.isDir
    THEN [name |-> name \o <<"/">>, href |-> href \o <<"/">>, isDir |-> TRUE,
          sizeText |-> [unit |-> "-", bytes |-> 0], mtime |-> dfi.mtime]
    ELSE [name |-> name, href |-> href, isDir |-> FALSE,
          sizeText |-> sizeTextOf(dfi.size), mtime |-> dfi.mtime]

rowOf(localPath, dfi0) ==
  rowFrom(dfi0.name, translateForProxy(Join(localPath, dfi0.name)),
          followSymlink(localPath, dfi0))

\* the entries the loop does not skip: those whose name does not begin with "."
shownOf(fis) == SelectSeq(fis, LAMBDA f : f.name[1] # ".")

rowsFor(localPath, shown) == [i \in 1..Len(shown) |-> rowOf(localPath, shown[i])]

\* the rows of the listing for the sorted entries
rowsOf(localPath, sorted) == rowsFor(localPath, shownOf(sorted))

touchedFor(localPath, shown) ==
  {localPath, Join(localPath, IndexSort)}
  \cup UNION { followSymlinkTouched(localPath, shown[i]) : i \in 1..Len(shown) }

\* the listing of localPath with its entries fis read and the mode decided
listingOf(localPath, sortString, mode, fis) ==
  { Response("listing", StatusOK, <<>>, localPath,
             touchedFor(localPath, shownOf(fis)),
             startsWith(baseDirOf(localPath), jailRoot),
             rowsOf(localPath, sorted), sortLinksOf(sortString)) :
      sorted \in sortSort(fis, mode[1], mode[2]) }

indexFor(localPath, sortString) ==
  listingOf(localPath, sortString, sortModeOf(sortString), Readdir(localPath))

\* generateIndexHtml for a path os.Stat reported as a directory: the
\* responses it can write, one per result of sort.Sort
generateIndexHtml(localPath, u) ==
  indexFor(localPath, sortStringOf(FirstLine(Join(localPath, IndexSort)), u.sort))

(***************************************************************************)
(* processProxiedRequest, processRequest                                   *)
(***************************************************************************)

Plain(k, st, loc, localPath) ==
  Response(k, st, loc, localPath, {localPath}, FALSE, <<>>, <<>>)

\* the answer to a request for a symlink whose target is linkDest
symlinkResponse(localPath, linkDest) ==
  IF IsAbs(linkDest) /\ ~startsWith(linkDest, jailRoot)
    THEN Plain("error", StatusBadRequest, <<>>, localPath)
    ELSE Plain("redirect", StatusFound,
               translateForProxy(Join(Dir(localPath), linkDest)), localPath)

\* what follows "Regular stat": fi is os.Stat's answer
statResponse(u, relPath, localPath, fi) ==
  IF fi.err THEN {Plain("error", StatusNotFound, <<>>, localPath)}
  ELSE IF fi.isRegular
    THEN IF accelRedirect # <<>>
           THEN {Plain("accel", StatusOK, Join(accelRedirect, relPath), localPath)}
           ELSE {Plain("file", StatusOK, <<>>, localPath)}
  ELSE IF fi.isDir THEN generateIndexHtml(localPath, u)
  ELSE {Plain("none", 0, <<>>, localPath)}

lstatResponse(u, localPath, lfi) ==
  IF ~lfi.err /\ lfi.isLink
    THEN {symlinkResponse(localPath, Readlink(localPath))}
    ELSE statResponse(u, removeIfStartsWith(u.Path, proxyRoot), localPath,
                      Stat(localPath))

localResponse(u, localPath) == lstatResponse(u, localPath, Lstat(localPath))

\* the responses processProxiedRequest can write for the parsed URL u
processProxiedRequest(u) == localResponse(u, toLocal(u.Path))

\* the responses of the handler to the parsed URL u
responsesTo(u) ==
  IF startsWith(u.Path, proxyRoot) THEN processProxiedRequest(u) ELSE {NoResponse}

Idle == [st |-> "idle", uri |-> [raw |-> <<>>, query |-> ""], rsp |-> NoResponse]

\* the HTTP server reads a request on connection c and starts its handler
Accept(c, uri) ==
  /\ alive
  /\ conn[c].st # "pending"
  /\ conn' = [conn EXCEPT ![c] = [st |-> "pending", uri |-> uri, rsp |-> NoResponse]]
  /\ UNCHANGED <<proxyRoot, jailRoot, accelRedirect, fs, alive>>

\* a URI that does not parse ends the process (log.Fatal); otherwise the
\* handler answers on connection c
handle(c, u) ==
  IF u.err
    THEN /\ alive' = FALSE
         /\ UNCHANGED conn
    ELSE /\ alive' = alive
         /\ \E r \in responsesTo(u) :
              conn' = [conn EXCEPT ![c] = [st |-> "done", uri |-> @.uri, rsp |-> r]]

\* the handler of connection c runs
processRequest(c) ==
  /\ alive
  /\ conn[c].st = "pending"
  /\ handle(c, urlParse(conn[c].uri))
  /\ UNCHANGED <<proxyRoot, jailRoot, accelRedirect, fs>>

(***************************************************************************)
(* Configurations, filesystems and requests                                *)
(***************************************************************************)

ProxyRoots == { <<"/">>, <<"/", "p">> }

\* the jail /j under each of its names, and the filesystem root
JailRoots == { <<"/", "j">>, <<"/", "j", "/">>, <<".">>, <<"/">> }

AccelRoots == { <<>>, <<"/", "x">> }

\* /e and /jx lie outside the jail /j; /j/d holds links to either side
BaseFS ==
  << Node(<<"/">>, "dir", <<>>, 4, 1, ""),
     Node(<<"/", "e">>, "dir", <<>>, 4, 2, ""),
     Node(<<"/", "e", "/", "s">>, "file", <<>>, 3, 2, ""),
     Node(<<"/", "j", "x">>, "dir", <<>>, 4, 3, ""),
     Node(<<"/", "j">>, "dir", <<>>, 4, 1, ""),
     Node(<<"/", "j", "/", "o">>, "dir", <<>>, 4, 5, ""),
     Node(<<"/", "j", "/", "a">>, "file", <<>>, 2, 4, ""),
     Node(<<"/", "j", "/", ".", "h">>, "file", <<>>, 1, 1, ""),
     Node(<<"/", "j", "/", "d">>, "dir", <<>>, 4, 2, ""),
     Node(<<"/", "j", "/", "o", "/", "f">>, "file", <<>>, 5, 3, ""),
     Node(<<"/", "j", "/", "d", "/", "l">>, "link", <<".", ".", "/", "o">>, 1, 6, ""),
     Node(<<"/", "j", "/", "d", "/", "m">>, "link", <<"/", "j", "/", "o">>, 1, 6, ""),
     Node(<<"/", "j", "/", "d", "/", "u">>, "link",
          <<".", ".", "/", ".", ".", "/", "e">>, 1, 6, ""),
     Node(<<"/", "j", "/", "d", "/", "v">>, "link", <<"/", "e">>, 1, 6, ""),
     Node(<<"/", "j", "/", "d", "/", "w">>, "link", <<"/", "j", "x">>, 1, 6, ""),
     Node(<<"/", "j", "/", "d", "/", "b">>, "dir", <<>>, 4, 7, "") >>

\* request paths relative to the web root
RelPaths ==
  { <<>>, <<"/">>, <<"/", "a">>, <<"/", ".", "h">>, <<"/", "o">>, <<"/", "d">>,
    <<"/", "d", "/", "b">>, <<"/", "d", "/", "/", "b", "/">>,
    <<"/", "d", "/", "l">>, <<"/", "d", "/", "m">>, <<"/", "d", "/", "u">>,
    <<"/", "d", "/", "v">>, <<"/", "d", "/", "w">>,
    <<"/", ".", ".", "/", "e">>, <<"/", "d", "/", ".", ".", "/", ".", ".", "/", "e", "/", "s">>,
    <<"/", "n">> }

\* the request URIs clients send: paths under / and under /p, and the
\* request target ":1" of "CONNECT :1 HTTP/1.1"
RequestURIs ==
  { [raw |-> pre \o r, query |-> ""] :
      pre \in { <<>>, <<"/", "p">> }, r \in RelPaths \ {<<>>} }
  \cup { [raw |-> <<"/", "p">>, query |-> ""],
         [raw |-> <<"/", "d">>, query |-> "size-desc"],
         [raw |-> <<":", "1">>, query |-> ""] }

Init ==
  /\ proxyRoot \in ProxyRoots
  /\ jailRoot \in JailRoots
  /\ accelRedirect \in AccelRoots
  /\ fs = BaseFS
  /\ alive = TRUE
  /\ conn = [c \in 1..MaxConns |-> Idle]

Next ==
  \/ \E c \in DOMAIN conn, uri \in RequestURIs : Accept(c, uri)
  \/ \E c \in DOMAIN conn : processRequest(c)

Spec == Init /\ [][Next]_vars

(***************************************************************************)
(* Listings: one jail /j behind /p, whose directory /j/o varies            *)
(***************************************************************************)

\* number of entries of the listed directory
MaxEntries == 3

NamePool == << <<"a">>, <<"b">>, <<"c">>, <<"d">>, <<"e">> >>

Names == { NamePool[i] : i \in 1..MaxEntries }

\* what an entry can be: a file, a directory, or a link to the directory /j/t
Profiles ==
  { [kind |-> "file", size |-> 1, mtime |-> 2],
    [kind |-> "file", size |-> 2, mtime |-> 1],
    [kind |-> "dir",  size |-> 1, mtime |-> 1],
    [kind |-> "link", size |-> 2, mtime |-> 2] }

\* the directories of at most MaxEntries entries, no name twice, in read order
EntryLists ==
  UNION { { e \in [1..n -> Names \X Profiles] :
              \A i, j \in 1..n : i # j => e[i][1] # e[j][1] } : n \in 0..MaxEntries }

\* the first line of /j/o/.index-sort; "" stands for no such file
Markers == { "", "date-desc" }

ListDir == <<"/", "j", "/", "o">>

EntryNode(e) ==
  Node(Join(ListDir, e[1]), e[2].kind,
       IF e[2].kind = "link" THEN <<".", ".", "/", "t">> ELSE <<>>,
       e[2].size, e[2].mtime, "")

ListFS(entries, marker) ==
  << Node(<<"/">>, "dir", <<>>, 4, 1, ""),
     Node(<<"/", "j">>, "dir", <<>>, 4, 1, ""),
     Node(<<"/", "j", "/", "t">>, "dir", <<>>, 4, 3, ""),
     Node(ListDir, "dir", <<>>, 4, 1, "") >>
  \o (IF marker = "" THEN <<>>
      ELSE << Node(Join(ListDir, IndexSort), "file", <<>>, 1, 1, marker) >>)
  \o [i \in 1..Len(entries) |-> EntryNode(entries[i])]

\* requests for the listing of /j/o, with and without ?sort=
ListQueries ==
  { "", "name-asc", "name-desc", "date-asc", "date-desc", "size-asc",
    "size-desc", "bogus" }

ListURIs == { [raw |-> <<"/", "p", "/", "o">>, query |-> q] : q \in ListQueries }

InitList ==
  /\ proxyRoot = <<"/", "p">>
  /\ jailRoot = <<"/", "j">>
  /\ accelRedirect = <<>>
  /\ fs \in { ListFS(e, m) : e \in EntryLists, m \in Markers }
  /\ alive = TRUE
  /\ conn = [c \in {1} |-> Idle]

NextList ==
  \/ \E c \in DOMAIN conn, uri \in ListURIs : Accept(c, uri)
  \/ \E c \in DOMAIN conn : processRequest(c)

SpecList == InitList /\ [][NextList]_vars

(***************************************************************************)
(* Large directories: seven files a..g in /j/o, of two sizes               *)
(***************************************************************************)

\* number of files in the directory
SortEntries == 7

SizeLists == [1..SortEntries -> {1, 2}]

SortFS(sizes) ==
  ListFS([i \in 1..SortEntries |->
            <<NamePool[((i - 1) % Len(NamePool)) + 1] \o
                (IF i > Len(NamePool) THEN <<"1">> ELSE <<>>),
              [kind |-> "file", size |-> sizes[i], mtime |-> 1]>>], "")

SortURIs ==
  { [raw |-> <<"/", "p", "/", "o">>, query |-> q] : q \in {"", "size-asc", "size-desc"} }

InitSort ==
  /\ proxyRoot = <<"/", "p">>
  /\ jailRoot = <<"/", "j">>
  /\ accelRedirect = <<>>
  /\ fs \in { SortFS(z) : z \in SizeLists }
  /\ alive = TRUE
  /\ conn = [c \in {1} |-> Idle]

NextSort ==
  \/ \E c \in DOMAIN conn, uri \in SortURIs : Accept(c, uri)
  \/ \E c \in DOMAIN conn : processRequest(c)

SpecSort == InitSort /\ [][NextSort]_vars

(***************************************************************************)
(* Properties                                                              *)
(***************************************************************************)

Conns == DOMAIN conn

\* connection c holds the response to a request the handler took as proxied
Answered(c) ==
  /\ conn[c].st = "done"
  /\ startsWith(urlParse(conn[c].uri).Path, proxyRoot)

Listed(c) == Answered(c) /\ conn[c].rsp.kind = "listing"

\* the jail directory, normalized
JailAbs == Abs(jailRoot)

\* p names the jail directory or something below it, by whole path elements
InJail(p) ==
  \/ Abs(p) = JailAbs
  \/ JailAbs = <<"/">>
  \/ startsWith(Abs(p), JailAbs \o <<"/">>)

\* p is proxyRoot or below it, by whole path elements
UnderProxy(p) ==
  \/ p = Clean(proxyRoot)
  \/ Clean(proxyRoot) = <<"/">> /\ IsAbs(p)
  \/ startsWith(p, Clean(proxyRoot) \o <<"/">>)

\* the proxy-visible path of the local path p: p relative to the jail, under proxyRoot
ProxyPathOf(p) ==
  Join(proxyRoot,
       JoinSegs(SubSeq(ElemsOf(Abs(p)), Len(ElemsOf(JailAbs)) + 1, Len(ElemsOf(Abs(p))))))

\* the requested local path of c is a symlink
IsLinkRequest(c) == Answered(c) /\ Lstat(conn[c].rsp.localPath).isLink

\* where the requested symlink points: an absolute target itself, a relative
\* one joined onto the directory of the link
ResolvedTarget(c) ==
  linkAbs(Dir(Abs(conn[c].rsp.localPath)), Readlink(conn[c].rsp.localPath))

\* C1: every path the handler hands to the filesystem for a request under
\* proxyRoot is the jail directory or below it.
C1_JailContainment ==
  \A c \in Conns : Answered(c) => \A t \in conn[c].rsp.touched : InJail(t)

\* C2: a request for a symlink whose target resolves outside the jail (by
\* whole path elements) is answered with status 400.
C2_EscapingSymlinkRejected ==
  \A c \in Conns :
    IsLinkRequest(c) /\ ~InJail(ResolvedTarget(c))
      => conn[c].rsp.kind = "error" /\ conn[c].rsp.status = StatusBadRequest

\* C3: a request for a symlink whose target resolves inside the jail is
\* answered with a 302 redirect to the proxy-visible path of that target.
C3_SymlinkRedirectsToTarget ==
  \A c \in Conns :
    IsLinkRequest(c) /\ InJail(ResolvedTarget(c))
      => /\ conn[c].rsp.kind = "redirect"
         /\ conn[c].rsp.status = StatusFound
         /\ conn[c].rsp.location = ProxyPathOf(ResolvedTarget(c))

\* C4: for a normalized request path P under proxyRoot, translating to the
\* local path and back gives P; and for the normalized local path L under
\* jailRoot it was translated to, translating to the proxy and back gives L.
C4_TranslationRoundTrip ==
  \A c \in Conns :
    Answered(c) =>
      LET P == urlParse(conn[c].uri).Path
          L == conn[c].rsp.localPath
      IN  /\ (P = Clean(P) /\ UnderProxy(P)) => translateForProxy(toLocal(P)) = P
          /\ InJail(L) => toLocal(translateForProxy(L)) = L

\* C5: in a listing no row marked as a directory comes after a row that is
\* not marked as a directory.
C5_DirectoriesFirst ==
  \A c \in Conns :
    Listed(c) =>
      \A i, j \in 1..Len(conn[c].rsp.rows) :
        i < j => ~(conn[c].rsp.rows[j].isDir /\ ~conn[c].rsp.rows[i].isDir)

RecognizedModes ==
  {"name-asc", "name-desc", "date-asc", "date-desc", "size-asc", "size-desc"}

\* entry a comes strictly before entry b by the key and direction of mode m
KeyBefore(m, a, b) ==
  CASE m = "name-asc"  -> StrLess(a.name, b.name)
    [] m = "name-desc" -> StrLess(b.name, a.name)
    [] m = "date-asc"  -> a.mtime < b.mtime
    [] m = "date-desc" -> a.mtime > b.mtime
    [] m = "size-asc"  -> a.size < b.size
    [] m = "size-desc" -> a.size > b.size

\* the directory entries the rows of c's listing were made from, row by row
RowEntries(c) ==
  [i \in 1..Len(conn[c].rsp.rows) |->
     Lstat(Join(conn[c].rsp.localPath, conn[c].rsp.rows[i].name))]

\* the entries es are in the order of mode m: of two entries of the same
\* class (directory or not) the later one is never strictly before the
\* earlier one
InMode(es, m) ==
  \A i, j \in 1..Len(es) :
    (i < j /\ es[i].isDir = es[j].isDir) => ~KeyBefore(m, es[j], es[i])

\* the rows of c's listing are in the order of mode m
RowsInMode(c, m) == InMode(RowEntries(c), m)

\* the first line of the marker file of the directory c listed, "" if none
MarkerOf(c) == FirstLine(Join(conn[c].rsp.localPath, IndexSort))

C7_UnknownQueryIgnored ==
  \A c \in Conns :
    (Listed(c) /\ conn[c].uri.query # "" /\ conn[c].uri.query \notin RecognizedModes)
      => IF MarkerOf(c) \in RecognizedModes
           THEN RowsInMode(c, MarkerOf(c))
           ELSE RowsInMode(c, "name-asc")

\* C7 amended: a non-empty ?sort= value that names no mode puts the listing in
\* the default order, name ascending, whatever the marker file says.
C7_UnknownQueryIsDefault ==
  \A c \in Conns :
    (Listed(c) /\ conn[c].uri.query # "" /\ conn[c].uri.query \notin RecognizedModes)
      => RowsInMode(c, "name-asc")

\* C7: a listing requested with ?sort=bogus in a directory whose marker says
\* date-desc, in an order that is not date descending
C7_Witness ==
  \E c \in Conns :
    /\ Listed(c)
    /\ conn[c].uri.query = "bogus"
    /\ MarkerOf(c) = "date-desc"
    /\ Len(conn[c].rsp.rows) >= 2
    /\ ~RowsInMode(c, "date-desc")

\* C8: a listing of a directory in the jail has the "../" row exactly when
\* the directory is not the jail directory itself.
C8_ParentRowBelowJailRoot ==
  \A c \in Conns :
    (Listed(c) /\ InJail(conn[c].rsp.localPath))
      => (conn[c].rsp.parentRow <=> Abs(conn[c].rsp.localPath) # JailAbs)

\* the place of entry e in the directory read fis
ReadPlace(fis, e) == CHOOSE k \in 1..Len(fis) : fis[k].name = e.name

\* the entries es, in listing order, keep the order of the read fis wherever
\* two of them compare equal under the comparison by, dir
StableIn(es, fis, by, dir) ==
  \A i, j \in 1..Len(es) :
    (i < j /\ ~Less(by, dir, es[i], es[j]) /\ ~Less(by, dir, es[j], es[i]))
      => ReadPlace(fis, es[i]) < ReadPlace(fis, es[j])

\* the sortBy and sortDir the handler sorted c's listing with
ChosenMode(c) == sortModeOf(sortStringOf(MarkerOf(c), conn[c].uri.query))

\* C9: two entries that compare equal under the chosen rule are listed in the
\* order the directory read returned them.
C9_SortStable ==
  \A c \in Conns :
    Listed(c) =>
      StableIn(RowEntries(c), Readdir(conn[c].rsp.localPath),
               ChosenMode(c)[1], ChosenMode(c)[2])

\* C10: whatever the other requests are, the process keeps running while a
\* request under proxyRoot waits for its answer.
C10_RequestsIndependent ==
  \A c \in Conns :
    (/\ conn[c].st = "pending"
     /\ ~urlParse(conn[c].uri).err
     /\ startsWith(urlParse(conn[c].uri).Path, proxyRoot))
      => alive
====
